---- MODULE Spec2Model ----
(***************************************************************************)
(* A model of the error-reporting facility of helps (main.go): the         *)
(* httpError value and its constructors, genUUID, and api.error run by     *)
(* several requests at once against the shared logger.                     *)
(*                                                                         *)
(* Text is a sequence of tokens (strings); a correlation identifier is a   *)
(* sequence of 36 one-character tokens.  An error value is the token       *)
(* sequence of its Error() text, and the nil error is the empty sequence.  *)
(***************************************************************************)
EXTENDS Integers, Sequences, FiniteSets, TLC

\* Number of requests served at once, each on its own goroutine.
NumRequests == 2

\* Number of filler byte values in the family of 16-byte random inputs.
NumFill == 2

Requests == 1..NumRequests

NoError == <<>>

VARIABLES
    pc,        \* pc[p]: where request p stands in api.error
    req,       \* req[p]: the constructor call the handler made
    err,       \* err[p]: the *httpError handed to api.error
    id,        \* id[p]: local id of api.error
    genErr,    \* genErr[p]: local genErr of api.error
    encodeErr, \* encodeErr[p]: local encodeErr of api.error
    reads,     \* reads[p]: number of reads of the random source made for p
    resp,      \* resp[p]: the http.ResponseWriter of request p
    mu,        \* the logger's mutex: 0 when free, else the holder
    outbuf,    \* outbuf[p]: chunks of the line p's Printf still has to write
    stream,    \* the log stream (os.Stdout): chunks in the order written
    rnd,       \* the random source's outcome handed to a lone genUUID call
    uuid       \* the result of that call

vars == <<pc, req, err, id, genErr, encodeErr, reads, resp, mu, outbuf, stream, rnd, uuid>>

----------------------------------------------------------------------------
\* Text helpers.

Contains(text, tok) == \E i \in 1..Len(text) : text[i] = tok

IsPrefix(s, t) == Len(s) <= Len(t) /\ SubSeq(t, 1, Len(s)) = s

\* Go's s[lo:hi] on a 0-indexed sequence.
Slice(s, lo, hi) == SubSeq(s, lo + 1, hi)

\* copy into dst[lo:lo+len(data)], as hex.Encode(buf[lo:hi], ...) writes.
Put(dst, lo, data) ==
    [i \in 1..Len(dst) |->
        IF i > lo /\ i <= lo + Len(data) THEN data[i - lo] ELSE dst[i]]

----------------------------------------------------------------------------
\* genUUID (main.go:82-101).

ByteMax == 255

UUIDBytes == 16

UUIDLen == 36

hextable == <<"0", "1", "2", "3", "4", "5", "6", "7",
              "8", "9", "a", "b", "c", "d", "e", "f">>

\* hex.Encode with the nibbles of each byte in the wrong order.
hexEncodeLowFirst(src) ==
    [i \in 1..(2 * Len(src)) |->
        IF i % 2 = 1 THEN hextable[(src[(i + 1) \div 2] % 16) + 1]
                     ELSE hextable[(src[i \div 2] \div 16) + 1]]

\* encoding/hex Encode: two characters per byte, high nibble first.
hexEncode(src) ==
    [i \in 1..(2 * Len(src)) |->
        IF i % 2 = 1 THEN hextable[(src[(i + 1) \div 2] \div 16) + 1]
                     ELSE hextable[(src[i \div 2] % 16) + 1]]

\* An outcome of rand.Read(u[:]): the 16 bytes, or the source's error.
RandOK(bytes) == [ok |-> TRUE, bytes |-> bytes, err |-> NoError]

RandFail == [ok |-> FALSE, bytes |-> <<>>, err |-> <<"entropy unavailable">>]

formatUUID(u) ==
    LET buf0 == [i \in 1..UUIDLen |-> "NUL"]
        buf1 == Put(buf0, 0, hexEncode(Slice(u, 0, 4)))
        buf2 == Put(buf1, 8, <<"-">>)
        buf3 == Put(buf2, 9, hexEncode(Slice(u, 4, 6)))
        buf4 == Put(buf3, 13, <<"-">>)
        buf5 == Put(buf4, 14, hexEncode(Slice(u, 6, 8)))
        buf6 == Put(buf5, 18, <<"-">>)
        buf7 == Put(buf6, 19, hexEncode(Slice(u, 8, 10)))
        buf8 == Put(buf7, 23, <<"-">>)
        buf9 == Put(buf8, 24, hexEncode(Slice(u, 10, UUIDBytes)))
    IN  buf9

genUUID(r) ==
    IF ~r.ok
    THEN [id |-> <<>>, err |-> <<"genUUID: ">> \o r.err]
    ELSE [id |-> formatUUID(r.bytes), err |-> NoError]

----------------------------------------------------------------------------
\* httpError and its constructors (main.go:107-133).

newHTTPError(cause, code, msg, args) ==
    [error |-> cause, code |-> code, msg |-> msg, args |-> args]

error500(cause) == newHTTPError(cause, 500, <<"internal server error">>, <<>>)

error400(cause, msg, args) == newHTTPError(cause, 400, msg, args)

\* error404 copied from error400 with the code left as it was.
error404Code400(cause, msg, args) == newHTTPError(cause, 400, msg, args)

error404(cause, msg, args) == newHTTPError(cause, 404, msg, args)

----------------------------------------------------------------------------
\* fmt, as api.error and MarshalJSON use it.

Verbs == {"%q", "%v"}

\* One operand under one verb: %q quotes a string, %v prints it plain.
fmtVerb(verb, arg) ==
    IF verb = "%q" THEN <<"\"", arg, "\"">> ELSE <<arg>>

\* A verb with no operand left.
fmtMissing(verb) == IF verb = "%q" THEN <<"%!q(MISSING)">> ELSE <<"%!v(MISSING)">>

RECURSIVE fmtExtra(_)
fmtExtra(args) ==
    IF args = <<>> THEN <<>>
    ELSE <<"string=", Head(args)>>
         \o (IF Tail(args) = <<>> THEN <<>> ELSE <<", ">>)
         \o fmtExtra(Tail(args))

\* fmt.Sprintf(format, args...): the format is a sequence of literal tokens
\* and verbs; operands left over are reported after the text.
RECURSIVE Sprintf(_, _)
Sprintf(format, args) ==
    IF format = <<>>
    THEN IF args = <<>> THEN <<>> ELSE <<"%!(EXTRA ">> \o fmtExtra(args) \o <<")">>
    ELSE IF Head(format) \in Verbs
         THEN IF args = <<>>
              THEN fmtMissing(Head(format)) \o Sprintf(Tail(format), args)
              ELSE fmtVerb(Head(format), Head(args)) \o Sprintf(Tail(format), Tail(args))
         ELSE <<Head(format)>> \o Sprintf(Tail(format), args)

PanicText == "%!v(PANIC=Error method: runtime error: invalid memory address or nil pointer dereference)"

\* %v of a *httpError: the Error method promoted from the embedded error, so
\* the text of the cause alone; with a nil cause the call panics and fmt
\* prints the panic in its place.
ErrorString(e) == IF e.error = NoError THEN <<PanicText>> ELSE e.error

----------------------------------------------------------------------------
\* encoding/json, as MarshalJSON and api.error use it.

\* The JSON string escape of one token (the encoder escapes HTML by default).
jsonEscapeToken(t) ==
    CASE t = "\"" -> "\\\""
      [] t = "\\" -> "\\\\"
      [] t = "<"  -> "\\u003c"
      [] t = ">"  -> "\\u003e"
      [] t = "&"  -> "\\u0026"
      [] OTHER    -> t

jsonString(text) == <<"\"">> \o [i \in 1..Len(text) |-> jsonEscapeToken(text[i])] \o <<"\"">>

\* MarshalJSON rendering the cause after the message.
MarshalJSONWithCause(e) ==
    <<"{", "\"err\"", ":">> \o jsonString(Sprintf(e.msg, e.args) \o ErrorString(e)) \o <<"}">>

\* (err *httpError) MarshalJSON (main.go:135-142).
MarshalJSON(e) == <<"{", "\"err\"", ":">> \o jsonString(Sprintf(e.msg, e.args)) \o <<"}">>

\* The bytes json.NewEncoder(w).Encode(err) hands to w.Write (main.go:72).
encodeBytes(e) == MarshalJSON(e) \o <<"\n">>

----------------------------------------------------------------------------
\* http.ResponseWriter, as api.error uses it.  calls records the calls made.

upperOf == [c \in {"x", "e", "r", "i", "d"} |->
              CASE c = "x" -> "X" [] c = "e" -> "E" [] c = "r" -> "R"
                [] c = "i" -> "I" [] c = "d" -> "D"]

lowerOf == [c \in {"X", "E", "R", "I", "D"} |->
              CASE c = "X" -> "x" [] c = "E" -> "e" [] c = "R" -> "r"
                [] c = "I" -> "i" [] c = "D" -> "d"]

\* textproto.CanonicalMIMEHeaderKey: upper case first and after each hyphen,
\* lower case elsewhere.
CanonicalKey(k) ==
    [i \in 1..Len(k) |->
        IF i = 1 \/ (i > 1 /\ k[i - 1] = "-")
        THEN IF k[i] \in DOMAIN upperOf THEN upperOf[k[i]] ELSE k[i]
        ELSE IF k[i] \in DOMAIN lowerOf THEN lowerOf[k[i]] ELSE k[i]]

\* The key api.error passes to Header().Set (main.go:70): "X-Errid".
ErrIDHeader == <<"X", "-", "E", "r", "r", "i", "d">>

NewResponse ==
    [header |-> <<>>, wroteHeader |-> FALSE, status |-> 0,
     sentHeader |-> <<>>, body |-> <<>>, calls |-> <<>>]

\* Header().Set guarded by a test that the value is not empty.
HeaderSetUnlessEmpty(w, key, value) ==
    IF value = <<>> THEN w
    ELSE [w EXCEPT !.header = (CanonicalKey(key) :> value) @@ @,
                   !.calls = Append(@, "Header.Set")]

HeaderSet(w, key, value) ==
    [w EXCEPT !.header = (CanonicalKey(key) :> value) @@ @,
              !.calls = Append(@, "Header.Set")]

\* The first WriteHeader fixes the status and the headers sent; later ones
\* are ignored.
sendHeader(w, code) ==
    IF w.wroteHeader THEN w
    ELSE [w EXCEPT !.wroteHeader = TRUE, !.status = code, !.sentHeader = w.header]

WriteHeader(w, code) == [sendHeader(w, code) EXCEPT !.calls = Append(@, "WriteHeader")]

\* Write sends status 200 first when no status was written; n is the number
\* of tokens the connection accepts before it fails (all of them: no error).
Write(w, data, n) ==
    [w |-> [sendHeader(w, 200) EXCEPT !.body = @ \o SubSeq(data, 1, n),
                                      !.calls = Append(@, "Write")],
     err |-> IF n < Len(data) THEN <<"write: broken pipe">> ELSE NoError]

----------------------------------------------------------------------------
\* log.Logger (main.go:17), as api.error uses it.  Printf formats the line,
\* takes the logger's mutex, writes the line to the stream and releases the
\* mutex; the stream may take the line in more than one write.  A chunk
\* carries the request that wrote it (by), which the stream itself does not.

logHeader(site) == <<"helps: ", "<date time UTC> ", site>>

\* main.go:67
genErrLine(ge) ==
    <<"genErr=">> \o ge \o <<", msg=", "\"", "error while reporting API error", "\"">>

\* main.go:74
encodeErrLine(i, e, ee) ==
    <<"errID=", "\"">> \o i \o <<"\"", ", err=">> \o ErrorString(e)
        \o <<", encodeErr=">> \o ee \o <<", msg=", "error while reporting API error">>

\* The success line printing the external message in place of the error.
okLineExternal(i, e) == <<"errID=", "\"">> \o i \o <<"\"", ", err=">> \o Sprintf(e.msg, e.args)

\* main.go:77
okLine(i, e) == <<"errID=", "\"">> \o i \o <<"\"", ", err=">> \o ErrorString(e)

lineChunks(p, site, text) ==
    << [by |-> p, part |-> 1, text |-> logHeader(site)],
       [by |-> p, part |-> 2, text |-> text \o <<"\n">>] >>

\* A logger that takes no mutex.
CanLockAlways(p) == TRUE

\* sync.Mutex Lock: mu is the set of requests inside the critical section.
CanLock(p) == mu = {}

----------------------------------------------------------------------------
\* What the environment supplies.

Causes == { <<"exampleHandler: server broken">>, <<"db password is secret123">>, NoError }

Templates == { <<"bad json">>, <<"entry ", "%q", " not found">> }

ArgLists == { <<>>, <<"e1">> }

call500(c) == [ctor |-> "error500", cause |-> c, msg |-> <<>>, args |-> <<>>]

\* The calls a handler makes to build the error (main.go:46, 51-57).
AllHandlerCalls ==
    { call500(c) : c \in Causes }
    \cup
    { [ctor |-> k, cause |-> c, msg |-> m, args |-> a] :
        k \in {"error400", "error404"}, c \in Causes, m \in Templates, a \in ArgLists }

\* The calls made by the requests that run at once: two that differ in the
\* cause alone, with a template and an operand (main.go:57).
HandlerCalls ==
    { [ctor |-> "error404", cause |-> c,
       msg |-> <<"entry ", "%q", " not found">>, args |-> <<"e1">>] :
        c \in {<<"exampleHandler: server broken">>, <<"db password is secret123">>} }

construct(call) ==
    CASE call.ctor = "error500" -> error500(call.cause)
      [] call.ctor = "error400" -> error400(call.cause, call.msg, call.args)
      [] call.ctor = "error404" -> error404(call.cause, call.msg, call.args)

\* Outcomes of the random source: it fails, or yields 16 bytes.
AllRandOutcomes ==
    { RandFail,
      RandOK([i \in 1..UUIDBytes |-> i - 1]),
      RandOK([i \in 1..UUIDBytes |-> ByteMax - 17 * (i - 1)]) }

\* For the requests that run at once the source yields bytes no other
\* request is given (a secure source does not repeat), or fails.
RandOutcomes(p) ==
    { RandFail, RandOK([i \in 1..UUIDBytes |-> (17 * p + i - 1) % (ByteMax + 1)]) }

\* Numbers of tokens a failing connection accepts before it fails.
AllShortWrites == {0, 1}

ShortWrites == {1}

----------------------------------------------------------------------------
\* api.error (main.go:64-78), one action per statement.

AfterGenUUID(ge) == IF ge # NoError THEN "logGenErr" ELSE "setHeader"

\* A return after the log of the generation failure.
AfterGenErrLogReturn == "done"

AfterGenErrLog == "setHeader"

\* The call of WriteHeader left out.
AfterSetHeaderSkipStatus == "encode"

AfterSetHeader == "writeHeader"

AfterWriteHeader == "encode"

AfterEncode(ee) == IF ee # NoError THEN "logEncodeErr" ELSE "logOK"

\* The return of main.go:75 left out.
AfterEncodeErrLogFallThrough == "logOK"

AfterEncodeErrLog == "done"

AfterOKLog == "done"

LogPcs == {"logGenErr", "logEncodeErr", "logOK"}

NoRequest == [ctor |-> "none", cause |-> NoError, msg |-> <<>>, args |-> <<>>]

Init ==
    /\ pc = [p \in Requests |-> "idle"]
    /\ req = [p \in Requests |-> NoRequest]
    /\ err = [p \in Requests |-> newHTTPError(NoError, 0, <<>>, <<>>)]
    /\ id = [p \in Requests |-> <<>>]
    /\ genErr = [p \in Requests |-> NoError]
    /\ encodeErr = [p \in Requests |-> NoError]
    /\ reads = [p \in Requests |-> 0]
    /\ resp = [p \in Requests |-> NewResponse]
    /\ mu = {}
    /\ outbuf = [p \in Requests |-> <<>>]
    /\ stream = <<>>
    /\ rnd = RandFail
    /\ uuid = [called |-> FALSE, id |-> <<>>, err |-> NoError]

\* A handler builds the error and calls a.error(w, err) (main.go:46).
Handler(p, calls) ==
    /\ pc[p] = "idle"
    /\ \E c \in calls :
        /\ req' = [req EXCEPT ![p] = c]
        /\ err' = [err EXCEPT ![p] = construct(c)]
    /\ pc' = [pc EXCEPT ![p] = "genUUID"]
    /\ UNCHANGED <<id, genErr, encodeErr, reads, resp, mu, outbuf, stream, rnd, uuid>>

\* main.go:65
GenUUID(p, outcomes) ==
    /\ pc[p] = "genUUID"
    /\ \E r \in outcomes :
        LET g == genUUID(r) IN
        /\ id' = [id EXCEPT ![p] = g.id]
        /\ genErr' = [genErr EXCEPT ![p] = g.err]
        /\ pc' = [pc EXCEPT ![p] = AfterGenUUID(g.err)]
    /\ reads' = [reads EXCEPT ![p] = @ + 1]
    /\ UNCHANGED <<req, err, encodeErr, resp, mu, outbuf, stream, rnd, uuid>>

\* main.go:70
SetHeader(p) ==
    /\ pc[p] = "setHeader"
    /\ resp' = [resp EXCEPT ![p] = HeaderSet(@, ErrIDHeader, id[p])]
    /\ pc' = [pc EXCEPT ![p] = AfterSetHeader]
    /\ UNCHANGED <<req, err, id, genErr, encodeErr, reads, mu, outbuf, stream, rnd, uuid>>

\* main.go:71
WriteStatus(p) ==
    /\ pc[p] = "writeHeader"
    /\ resp' = [resp EXCEPT ![p] = WriteHeader(@, err[p].code)]
    /\ pc' = [pc EXCEPT ![p] = AfterWriteHeader]
    /\ UNCHANGED <<req, err, id, genErr, encodeErr, reads, mu, outbuf, stream, rnd, uuid>>

\* main.go:72
Encode(p, shorts) ==
    /\ pc[p] = "encode"
    /\ \E n \in {k \in shorts : k < Len(encodeBytes(err[p]))} \cup {Len(encodeBytes(err[p]))} :
        LET r == Write(resp[p], encodeBytes(err[p]), n) IN
        /\ resp' = [resp EXCEPT ![p] = r.w]
        /\ encodeErr' = [encodeErr EXCEPT ![p] = r.err]
        /\ pc' = [pc EXCEPT ![p] = AfterEncode(r.err)]
    /\ UNCHANGED <<req, err, id, genErr, reads, mu, outbuf, stream, rnd, uuid>>

\* The lines printed from an identifier kept in one place for all requests.
printfLineSharedID(p) ==
    LET shared == id[CHOOSE q \in Requests : \A r \in Requests : q <= r] IN
    CASE pc[p] = "logGenErr" ->
            lineChunks(p, "main.go:67: ", genErrLine(genErr[p]))
      [] pc[p] = "logEncodeErr" ->
            lineChunks(p, "main.go:74: ", encodeErrLine(shared, err[p], encodeErr[p]))
      [] pc[p] = "logOK" ->
            lineChunks(p, "main.go:77: ", okLine(shared, err[p]))

\* The line the Printf at pc[p] formats (main.go:67, 74, 77).
printfLine(p) ==
    CASE pc[p] = "logGenErr" ->
            lineChunks(p, "main.go:67: ", genErrLine(genErr[p]))
      [] pc[p] = "logEncodeErr" ->
            lineChunks(p, "main.go:74: ", encodeErrLine(id[p], err[p], encodeErr[p]))
      [] pc[p] = "logOK" ->
            lineChunks(p, "main.go:77: ", okLine(id[p], err[p]))

afterPrintf(p) ==
    CASE pc[p] = "logGenErr" -> AfterGenErrLog
      [] pc[p] = "logEncodeErr" -> AfterEncodeErrLog
      [] pc[p] = "logOK" -> AfterOKLog

\* a.log.Printf: take the mutex with the line formatted.
PrintfLock(p) ==
    /\ pc[p] \in LogPcs
    /\ p \notin mu
    /\ CanLock(p)
    /\ mu' = mu \cup {p}
    /\ outbuf' = [outbuf EXCEPT ![p] = printfLine(p)]
    /\ UNCHANGED <<pc, req, err, id, genErr, encodeErr, reads, resp, stream, rnd, uuid>>

\* a.log.Printf: one write of the line's next chunk to the stream.
PrintfWrite(p) ==
    /\ pc[p] \in LogPcs
    /\ p \in mu
    /\ outbuf[p] # <<>>
    /\ stream' = Append(stream, Head(outbuf[p]))
    /\ outbuf' = [outbuf EXCEPT ![p] = Tail(@)]
    /\ UNCHANGED <<pc, req, err, id, genErr, encodeErr, reads, resp, mu, rnd, uuid>>

\* a.log.Printf: release the mutex and return to api.error.
PrintfUnlock(p) ==
    /\ pc[p] \in LogPcs
    /\ p \in mu
    /\ outbuf[p] = <<>>
    /\ mu' = mu \ {p}
    /\ pc' = [pc EXCEPT ![p] = afterPrintf(p)]
    /\ UNCHANGED <<req, err, id, genErr, encodeErr, reads, resp, outbuf, stream, rnd, uuid>>

Next ==
    \E p \in Requests :
        \/ Handler(p, HandlerCalls)
        \/ GenUUID(p, RandOutcomes(p))
        \/ SetHeader(p)
        \/ WriteStatus(p)
        \/ Encode(p, ShortWrites)
        \/ PrintfLock(p)
        \/ PrintfWrite(p)
        \/ PrintfUnlock(p)

\* Requests served at once.
Spec == Init /\ [][Next]_vars

\* One request alone, over every call, random outcome and write outcome.
LoneRequests == {p \in Requests : \A q \in Requests : p <= q}

NextLone ==
    \E p \in LoneRequests :
        \/ Handler(p, AllHandlerCalls)
        \/ GenUUID(p, AllRandOutcomes)
        \/ SetHeader(p)
        \/ WriteStatus(p)
        \/ Encode(p, AllShortWrites)
        \/ PrintfLock(p)
        \/ PrintfWrite(p)
        \/ PrintfUnlock(p)

SpecLone == Init /\ [][NextLone]_vars

----------------------------------------------------------------------------
\* genUUID alone, over a family of 16-byte outcomes of the random source:
\* every byte value at every position, the other positions holding a filler.

Fillers == { (85 * k) % (ByteMax + 1) : k \in 1..NumFill }

UUIDInputs ==
    { RandOK([i \in 1..UUIDBytes |-> IF i = k THEN b ELSE f]) :
        k \in 1..UUIDBytes, b \in 0..ByteMax, f \in Fillers }
    \cup { RandFail }

InitUUID ==
    /\ pc = [p \in Requests |-> "idle"]
    /\ req = [p \in Requests |-> NoRequest]
    /\ err = [p \in Requests |-> newHTTPError(NoError, 0, <<>>, <<>>)]
    /\ id = [p \in Requests |-> <<>>]
    /\ genErr = [p \in Requests |-> NoError]
    /\ encodeErr = [p \in Requests |-> NoError]
    /\ reads = [p \in Requests |-> 0]
    /\ resp = [p \in Requests |-> NewResponse]
    /\ mu = {}
    /\ outbuf = [p \in Requests |-> <<>>]
    /\ stream = <<>>
    /\ rnd \in UUIDInputs
    /\ uuid = [called |-> FALSE, id |-> <<>>, err |-> NoError]

CallGenUUID ==
    /\ ~uuid.called
    /\ uuid' = [called |-> TRUE, id |-> genUUID(rnd).id, err |-> genUUID(rnd).err]
    /\ UNCHANGED <<rnd, pc, req, err, id, genErr, encodeErr, reads, resp, mu, outbuf, stream>>

NextUUID == CallGenUUID

SpecUUID == InitUUID /\ [][NextUUID]_vars

----------------------------------------------------------------------------
\* Reading the state: the stages of api.error and the lines of the stream.

HeaderIsSet == {"writeHeader", "encode", "logEncodeErr", "logOK", "done"}

StatusIsWritten == {"encode", "logEncodeErr", "logOK", "done"}

BodyIsWritten == {"logEncodeErr", "logOK", "done"}

\* The positions in the stream of the messages request p logged.
MsgIdx(p) == {i \in 1..Len(stream) : stream[i].by = p /\ stream[i].part = 2}

IsGenErrMsg(t) == t[1] = "genErr="

IsEncodeErrMsg(t) == t[1] = "errID=" /\ Contains(t, ", encodeErr=")

IsOKMsg(t) == t[1] = "errID=" /\ ~Contains(t, ", encodeErr=")

\* The errID field of a message: what stands between the quotes after errID=.
ErrIDField(t) ==
    LET close == CHOOSE k \in 3..Len(t) :
                    t[k] = "\"" /\ \A j \in 3..(k - 1) : t[j] # "\""
    IN  SubSeq(t, 3, close - 1)

XErrid == <<"X", "-", "E", "r", "r", "i", "d">>

XErrorId == <<"X", "-", "E", "r", "r", "o", "r", "-", "I", "d">>

\* The JSON object {"err": <msg rendered with args>} and the line end.
ExternalBody(e) ==
    <<"{", "\"err\"", ":">> \o jsonString(Sprintf(e.msg, e.args)) \o <<"}", "\n">>

BodyEntryNotFound ==
    <<"{", "\"err\"", ":", "\"", "entry ", "\\\"", "e1", "\\\"", " not found", "\"", "}", "\n">>

SamePublic(e, f) == e.code = f.code /\ e.msg = f.msg /\ e.args = f.args

----------------------------------------------------------------------------
\* C1: the body written for an httpError is exactly the JSON object
\* {"err": <msg rendered with args>} (a prefix of it when the write fails),
\* no token of the cause is in it, and two requests whose errors agree in
\* code, msg and args but differ in the cause get the same status and body.
C1_ExternalOnly ==
    \A p \in Requests :
        /\ IsPrefix(resp[p].body, ExternalBody(err[p]))
        /\ (pc[p] \in BodyIsWritten /\ encodeErr[p] = NoError) =>
                resp[p].body = ExternalBody(err[p])
        /\ (pc[p] \in BodyIsWritten /\ encodeErr[p] = NoError /\ req[p].ctor = "error404") =>
                resp[p].body = BodyEntryNotFound
        /\ \A i \in 1..Len(err[p].error) : ~Contains(resp[p].body, err[p].error[i])
        /\ \A q \in Requests :
            (/\ pc[p] = "done" /\ pc[q] = "done"
             /\ SamePublic(err[p], err[q])
             /\ Len(resp[p].body) = Len(resp[q].body)) =>
                /\ resp[p].status = resp[q].status
                /\ resp[p].body = resp[q].body

C1_Witness ==
    \E p, q \in Requests :
        /\ pc[p] = "done" /\ pc[q] = "done"
        /\ SamePublic(err[p], err[q])
        /\ err[p].error # err[q].error
        /\ encodeErr[p] = NoError /\ encodeErr[q] = NoError
        /\ resp[p].body = BodyEntryNotFound

\* C2: the identifier in the error-id header of a request is the one in the
\* errID field of the lines that request logs, and an identifier generated
\* for one request is in no header and no line of another.
C2_Correlated ==
    \A p \in Requests :
        /\ \A i \in MsgIdx(p) :
            stream[i].text[1] = "errID=" =>
                /\ ErrIDField(stream[i].text) = id[p]
                /\ XErrid \in DOMAIN resp[p].sentHeader
                /\ resp[p].sentHeader[XErrid] = ErrIDField(stream[i].text)
        /\ pc[p] = "done" => \E i \in MsgIdx(p) : stream[i].text[1] = "errID="
        /\ \A q \in Requests \ {p} :
            id[p] # <<>> =>
                /\ \A k \in DOMAIN resp[q].header : resp[q].header[k] # id[p]
                /\ \A i \in MsgIdx(q) :
                    stream[i].text[1] = "errID=" => ErrIDField(stream[i].text) # id[p]

C2_Witness ==
    \E p, q \in Requests :
        /\ p # q
        /\ pc[p] = "done" /\ pc[q] = "done"
        /\ id[p] # <<>> /\ id[q] # <<>>
        /\ encodeErr[p] = NoError /\ encodeErr[q] # NoError
        /\ \E i \in MsgIdx(p), j \in MsgIdx(q) : i > j

\* C3, as stated: every call leaves an X-Error-Id header on the response,
\* set to the correlation identifier.
C3_HeaderNamedXErrorId ==
    \A p \in Requests :
        pc[p] \in HeaderIsSet =>
            /\ XErrorId \in DOMAIN resp[p].header
            /\ resp[p].header[XErrorId] = id[p]

\* C3, amended: every call leaves an X-Errid header on the response, set to
\* the correlation identifier and sent with the status; when random
\* generation fails the key is there with the empty string as its value.
C3_HeaderAlwaysSet ==
    \A p \in Requests :
        /\ pc[p] \in HeaderIsSet =>
            /\ DOMAIN resp[p].header = {XErrid}
            /\ resp[p].header[XErrid] = id[p]
            /\ genErr[p] # NoError => resp[p].header[XErrid] = <<>>
        /\ pc[p] \in StatusIsWritten =>
            /\ DOMAIN resp[p].sentHeader = {XErrid}
            /\ resp[p].sentHeader[XErrid] = id[p]

C3_Witness ==
    \E p \in Requests :
        /\ pc[p] = "done"
        /\ genErr[p] # NoError
        /\ XErrid \in DOMAIN resp[p].sentHeader
        /\ resp[p].sentHeader[XErrid] = <<>>

\* C4: when genUUID fails, api.error reads the random source once, logs one
\* line about the failure that is neither of the two error lines, goes on
\* with the empty identifier, and writes the status err.code and the body a
\* request with the same error and a generated identifier gets.
C4_DegradeOnRandomFailure ==
    \A p \in Requests :
        /\ reads[p] <= 1
        /\ genErr[p] = NoError => \A i \in MsgIdx(p) : ~IsGenErrMsg(stream[i].text)
        /\ genErr[p] # NoError =>
            /\ id[p] = <<>>
            /\ reads[p] = 1
            /\ pc[p] \in HeaderIsSet \cup {"setHeader"} =>
                /\ Cardinality({i \in MsgIdx(p) : IsGenErrMsg(stream[i].text)}) = 1
                /\ \A i \in MsgIdx(p) :
                    IsGenErrMsg(stream[i].text) =>
                        /\ ~IsOKMsg(stream[i].text) /\ ~IsEncodeErrMsg(stream[i].text)
                        /\ stream[i].text =
                            <<"genErr=", "genUUID: ", "entropy unavailable", ", msg=",
                              "\"", "error while reporting API error", "\"", "\n">>
            /\ pc[p] = "done" =>
                /\ resp[p].status = err[p].code
                /\ IsPrefix(resp[p].body, ExternalBody(err[p]))
                /\ encodeErr[p] = NoError => resp[p].body = ExternalBody(err[p])
                /\ \A q \in Requests :
                    (/\ pc[q] = "done" /\ genErr[q] = NoError
                     /\ err[q] = err[p]
                     /\ Len(resp[q].body) = Len(resp[p].body)) =>
                        /\ resp[q].status = resp[p].status
                        /\ resp[q].body = resp[p].body

C4_Witness ==
    \E p, q \in Requests :
        /\ pc[p] = "done" /\ pc[q] = "done"
        /\ genErr[p] # NoError /\ genErr[q] = NoError
        /\ err[p] = err[q]
        /\ encodeErr[p] = NoError /\ encodeErr[q] = NoError
        /\ resp[p].status = 404

\* C5: the status written is the code of the httpError; error500 gives code
\* 500, the message "internal server error" and no args whatever the cause,
\* error400 gives 400 and error404 gives 404, each with the caller's template
\* and args unchanged.
C5_StatusAndConstructors ==
    \A p \in Requests :
        /\ pc[p] # "idle" =>
            /\ err[p].error = req[p].cause
            /\ req[p].ctor = "error500" =>
                /\ err[p].code = 500
                /\ err[p].msg = <<"internal server error">>
                /\ err[p].args = <<>>
            /\ req[p].ctor = "error400" =>
                /\ err[p].code = 400
                /\ err[p].msg = req[p].msg
                /\ err[p].args = req[p].args
            /\ req[p].ctor = "error404" =>
                /\ err[p].code = 404
                /\ err[p].msg = req[p].msg
                /\ err[p].args = req[p].args
        /\ pc[p] \in StatusIsWritten =>
            /\ resp[p].wroteHeader
            /\ resp[p].status = err[p].code
            /\ req[p].ctor = "error500" => resp[p].status = 500
            /\ req[p].ctor = "error400" => resp[p].status = 400
            /\ req[p].ctor = "error404" => resp[p].status = 404

C5_Witness ==
    \E p \in Requests :
        /\ pc[p] = "done"
        /\ req[p].ctor = "error404"
        /\ req[p].args = <<"e1">>
        /\ resp[p].status = 404

\* The character of an identifier at a 0-based offset.
At(str, off) == str[off + 1]

HyphenOffsets == {8, 13, 18, 23}

HexDigits == {"0", "1", "2", "3", "4", "5", "6", "7",
              "8", "9", "a", "b", "c", "d", "e", "f"}

\* The value of a lower-case hex digit.
DigitValue(c) ==
    CASE c = "0" -> 0 [] c = "1" -> 1 [] c = "2" -> 2 [] c = "3" -> 3
      [] c = "4" -> 4 [] c = "5" -> 5 [] c = "6" -> 6 [] c = "7" -> 7
      [] c = "8" -> 8 [] c = "9" -> 9 [] c = "a" -> 10 [] c = "b" -> 11
      [] c = "c" -> 12 [] c = "d" -> 13 [] c = "e" -> 14 [] c = "f" -> 15

\* The hex characters of an identifier in order, its hyphens left out: one
\* hyphen stands before the 9th of them, two before the 13th, three before
\* the 17th and four before the 21st.
HexChars(str) ==
    [n \in 1..(Len(str) - Cardinality(HyphenOffsets)) |->
        At(str, (n - 1) + (IF n > 8 THEN 1 ELSE 0) + (IF n > 12 THEN 1 ELSE 0)
                        + (IF n > 16 THEN 1 ELSE 0) + (IF n > 20 THEN 1 ELSE 0))]

\* Outcomes of the random source that differ from r in one byte.
OneByteOff(r) ==
    { RandOK([r.bytes EXCEPT ![k] = (@ + d) % (ByteMax + 1)]) :
        k \in 1..Len(r.bytes), d \in {1, 16, 128} }

\* C6: a string genUUID returns without error has length 36, hyphens at
\* offsets 8, 13, 18 and 23 exactly and a character of [0-9a-f] at every
\* other offset; its 32 hex characters are the lower-case hex of the 16
\* bytes in order, and other bytes give another string.
C6_UUIDShape ==
    (uuid.called /\ uuid.err = NoError) =>
        /\ rnd.ok
        /\ Len(uuid.id) = 36
        /\ \A o \in 0..35 :
            /\ o \in HyphenOffsets => At(uuid.id, o) = "-"
            /\ o \notin HyphenOffsets => At(uuid.id, o) \in HexDigits
        /\ Len(HexChars(uuid.id)) = 32
        /\ \A k \in 1..16 :
            16 * DigitValue(HexChars(uuid.id)[2 * k - 1])
               + DigitValue(HexChars(uuid.id)[2 * k]) = rnd.bytes[k]
        /\ \A r \in OneByteOff(rnd) : genUUID(r).id # uuid.id

C6_Witness ==
    /\ uuid.called
    /\ uuid.err = NoError
    /\ rnd.bytes[5] = 171
    /\ SubSeq(uuid.id, 9, 12) = <<"-", "a", "b", "a">>

\* The messages of request p that report the error itself.
ErrorMsgIdx(p) == {i \in MsgIdx(p) : stream[i].text[1] = "errID="}

C7_ExactlyOneLine ==
    \A p \in Requests :
        /\ Cardinality(ErrorMsgIdx(p)) <= 1
        /\ \A i \in ErrorMsgIdx(p) :
            /\ IsEncodeErrMsg(stream[i].text) <=> encodeErr[p] # NoError
            /\ IsOKMsg(stream[i].text) <=> encodeErr[p] = NoError
            /\ IsEncodeErrMsg(stream[i].text) =>
                stream[i].text =
                    <<"errID=", "\"">> \o id[p] \o <<"\"", ", err=">>
                    \o (IF err[p].error = NoError THEN <<PanicText>> ELSE err[p].error)
                    \o <<", encodeErr=">> \o encodeErr[p]
                    \o <<", msg=", "error while reporting API error", "\n">>
        /\ pc[p] = "done" => Cardinality(ErrorMsgIdx(p)) = 1
        /\ (pc[p] = "done" /\ encodeErr[p] # NoError) =>
            /\ resp[p].calls = <<"Header.Set", "WriteHeader", "Write">>
            /\ Len(resp[p].body) < Len(ExternalBody(err[p]))

C7_NothingFurtherWritten ==
    \A p \in Requests : encodeErr[p] # NoError => resp'[p] = resp[p]

\* C7: when writing the body fails the call logs one line holding the
\* identifier, the httpError and the failure, and stops: no success line, and
\* nothing more written to the response; when it succeeds the success line
\* is logged and the failure line is not; each call logs exactly one of them.
C7_EncodeFailurePath == []C7_ExactlyOneLine /\ [][C7_NothingFurtherWritten]_vars

C7_Witness ==
    \E p \in Requests :
        /\ pc[p] = "done"
        /\ encodeErr[p] # NoError
        /\ Len(resp[p].body) = 1
        /\ \E i \in ErrorMsgIdx(p) : IsEncodeErrMsg(stream[i].text)

CodeText(c) == CASE c = 400 -> "400" [] c = 404 -> "404" [] c = 500 -> "500" [] OTHER -> "0"

\* C8, as stated: the success line holds the identifier with the cause, the
\* status code and the unrendered template and args.
C8_SuccessLineHasFullError ==
    \A p \in Requests :
        \A i \in ErrorMsgIdx(p) :
            IsOKMsg(stream[i].text) =>
                /\ ErrIDField(stream[i].text) = id[p]
                /\ \A k \in 1..Len(err[p].error) : Contains(stream[i].text, err[p].error[k])
                /\ Contains(stream[i].text, CodeText(err[p].code))
                /\ \A k \in 1..Len(err[p].msg) : Contains(stream[i].text, err[p].msg[k])
                /\ \A k \in 1..Len(err[p].args) : Contains(stream[i].text, err[p].args[k])

\* C8, amended: the success line holds the identifier with the Error() text
\* of the cause and nothing else of the httpError: not the status code, not
\* the template, not the args (with a nil cause, fmt's report of the panic
\* stands in for the text).
C8_SuccessLineHasCause ==
    \A p \in Requests :
        /\ \A i \in ErrorMsgIdx(p) :
            IsOKMsg(stream[i].text) =>
                /\ ErrIDField(stream[i].text) = id[p]
                /\ stream[i].text =
                    <<"errID=", "\"">> \o id[p] \o <<"\"", ", err=">>
                    \o (IF err[p].error = NoError THEN <<PanicText>> ELSE err[p].error)
                    \o <<"\n">>
                /\ ~Contains(stream[i].text, CodeText(err[p].code))
                /\ \A k \in 1..Len(err[p].msg) : ~Contains(stream[i].text, err[p].msg[k])
                /\ \A k \in 1..Len(err[p].args) : ~Contains(stream[i].text, err[p].args[k])
        /\ (pc[p] = "done" /\ encodeErr[p] = NoError) =>
            \E i \in ErrorMsgIdx(p) : IsOKMsg(stream[i].text)

C8_Witness ==
    \E p \in Requests :
        /\ pc[p] = "done"
        /\ err[p].code = 404
        /\ err[p].args = <<"e1">>
        /\ err[p].error = <<"db password is secret123">>
        /\ id[p] # <<>>
        /\ \E i \in ErrorMsgIdx(p) : IsOKMsg(stream[i].text)

\* C9: within a call the error-id header is set before the status is
\* written, the status before any byte of the body, and the status exactly
\* once, on the normal, the random-failure and the write-failure path.
C9_Ordering ==
    \A p \in Requests :
        /\ IsPrefix(resp[p].calls, <<"Header.Set", "WriteHeader", "Write">>)
        /\ resp[p].wroteHeader =>
            /\ XErrid \in DOMAIN resp[p].sentHeader
            /\ resp[p].sentHeader[XErrid] = id[p]
            /\ resp[p].status = err[p].code
        /\ resp[p].body # <<>> => resp[p].wroteHeader
        /\ pc[p] \in BodyIsWritten =>
            /\ resp[p].calls = <<"Header.Set", "WriteHeader", "Write">>
            /\ resp[p].status = err[p].code
        /\ pc[p] \in StatusIsWritten =>
            Cardinality({k \in 1..Len(resp[p].calls) : resp[p].calls[k] = "WriteHeader"}) = 1

C9_Witness ==
    \E p \in Requests :
        /\ pc[p] = "done"
        /\ genErr[p] # NoError
        /\ encodeErr[p] # NoError
        /\ resp[p].calls = <<"Header.Set", "WriteHeader", "Write">>
        /\ resp[p].status = 400

C10_Contiguous ==
    \A i \in 1..Len(stream) :
        /\ stream[i].part = 1 =>
            \/ i = Len(stream) /\ stream[i].by \in mu
            \/ i < Len(stream) /\ stream[i + 1].by = stream[i].by /\ stream[i + 1].part = 2
        /\ stream[i].part = 2 =>
            i > 1 /\ stream[i - 1].by = stream[i].by /\ stream[i - 1].part = 1

\* A step that is not a step of request p leaves everything of p alone.
C10_NothingElseShared ==
    \A p \in Requests :
        (pc'[p] = pc[p] /\ outbuf'[p] = outbuf[p]) =>
            /\ req'[p] = req[p] /\ err'[p] = err[p] /\ id'[p] = id[p]
            /\ genErr'[p] = genErr[p] /\ encodeErr'[p] = encodeErr[p]
            /\ reads'[p] = reads[p] /\ resp'[p] = resp[p]

\* C10: with requests logging at once, the chunks of each log call stand in
\* the stream as one line, no chunk of another call between them, in an
\* order the calls of different requests do not fix; apart from the stream
\* (and the logger's mutex) a request's step changes nothing of another.
C10_LogAtomicity == []C10_Contiguous /\ [][C10_NothingElseShared]_vars

C10_Witness ==
    \E p, q \in Requests :
        /\ p < q
        /\ Len(stream) >= 6
        /\ stream[1].by = q /\ stream[3].by = p /\ stream[5].by = q
        /\ pc[p] = "done" /\ pc[q] = "done"

====
